---- MODULE Spec2Model ----
(***************************************************************************)
(* Model of the arke server: the accept loop (ArkeServer::start), the      *)
(* per-connection engine (ArkeServer::handle_connection), the handler      *)
(* registry built by routes!, and the command catalogue (ArkeCommand).     *)
(***************************************************************************)
EXTENDS Integers, Sequences, FiniteSets, TLC

\* ---------------------------------------------------------------- bounds
MaxConns == 2
MaxReads == 2
MaxOps == 4

Conns == 1..MaxConns
NoOwner == 0

\* ------------------------------------------------------ command catalogue
\* ArkeCommand, #[repr(u8)]: the variants in declaration order, Hello = 0.
Variants == <<"Hello", "CreateUser", "Success", "Goodbye", "Error", "InsertPrekeys">>

\* CommandError: ServerError, InvalidSignature, InvalidKey (messages dropped).
ServerError == 1
InvalidSignature == 2
InvalidKey == 3

Cmd(t, p) == [type |-> t, payload |-> p]
NoCmd == Cmd("None", <<>>)
Hello(v) == Cmd("Hello", v)
CreateUser(u) == Cmd("CreateUser", u)
Success == Cmd("Success", <<>>)
Goodbye(e) == Cmd("Goodbye", e)
Error(e) == Cmd("Error", <<e>>)
InsertPrekeys(ks) == Cmd("InsertPrekeys", ks)
\* Option<CommandError>: None is the empty tuple, Some(e) the tuple <<e>>.
None == <<>>
Some(e) == <<e>>

\* impl Into<ArkeCommand> for CommandError
IntoCommand(e) == Goodbye(Some(e))

\* ArkeCommand::discriminant: the tag byte of the #[repr(u8)] enum.
discriminant_untagged(c) ==
    IF c.payload # <<>> THEN c.payload[1] % 256
    ELSE (CHOOSE i \in 1..Len(Variants) : Variants[i] = c.type) - 1

discriminant(c) == (CHOOSE i \in 1..Len(Variants) : Variants[i] = c.type) - 1

\* ArkeHello::default(): the version triple of the crate.
VersionMajor == 0
VersionMinor == 1
VersionPatch == 0
ArkeHello_default == <<VersionMajor, VersionMinor, VersionPatch>>

\* NewUser as <<username, identity_key, signed_prekey, signer, signed>>:
\* identity_key 0 is bytes that are no PEM key; the signature is the pair
\* (key that signed, bytes signed), (0, 0) a signature that does not parse.
NewUser(name, ik, spk, signer, signed) == <<name, ik, spk, signer, signed>>
NewUser_default == NewUser(0, 0, 0, 0, 0)

\* --------------------------------------------------------- wire encoding
\* A message on the wire: the "type" tag, the "payload" body and the bytes
\* after the closing brace. The empty buffer has no tag and no body.
Wire(tag, body, tail) == [tag |-> tag, body |-> body, tail |-> tail]
EmptyBuf == Wire("", <<>>, "")

\* serde_json::to_vec(&command)
Encode(c) == Wire(c.type, c.payload, "")

ErrorCodes == {ServerError, InvalidSignature, InvalidKey}

\* The payload shape serde accepts for each tag.
ValidPayload(t, p) ==
    CASE t = "Hello" -> Len(p) = 3 /\ \A i \in 1..3 : p[i] \in 0..255
      [] t = "CreateUser" -> Len(p) = 5
      [] t = "Success" -> p = <<>>
      [] t = "Goodbye" -> p = None \/ (Len(p) = 1 /\ p[1] \in ErrorCodes)
      [] t = "Error" -> Len(p) = 1 /\ p[1] \in ErrorCodes
      [] t = "InsertPrekeys" -> TRUE
      [] OTHER -> FALSE

Decode_strict(b) ==
    IF /\ b.tag \in {Variants[i] : i \in 1..Len(Variants)}
       /\ ValidPayload(b.tag, b.body)
       /\ b.tail = ""
    THEN [ok |-> TRUE, cmd |-> Cmd(b.tag, b.body)]
    ELSE [ok |-> FALSE, cmd |-> NoCmd]

\* serde_json::from_slice::<ArkeCommand>(&buffer[..n]): Ok(command) or Err.
Decode(b) ==
    IF /\ b.tag \in {Variants[i] : i \in 1..Len(Variants)}
       /\ ValidPayload(b.tag, b.body)
       /\ b.tail \in {"", "\n"}
    THEN [ok |-> TRUE, cmd |-> Cmd(b.tag, b.body)]
    ELSE [ok |-> FALSE, cmd |-> NoCmd]

\* ------------------------------------------------------------ the clients
\* What a client may put on the wire in one read of the server.
ClientCommands ==
    { Hello(ArkeHello_default), Hello(<<VersionMajor, VersionMinor, 7>>),
      Hello(<<VersionMajor, 2, 0>>), Hello(<<1, VersionMinor, 0>>),
      CreateUser(NewUser(1, 0, 5, 1, 5)), CreateUser(NewUser(1, 1, 5, 2, 5)),
      CreateUser(NewUser(1, 1, 5, 1, 5)),
      Success, InsertPrekeys(<<5>>) }

WireInputs ==
    {Encode(c) : c \in ClientCommands}
      \cup {EmptyBuf, Wire("Bogus", <<>>, ""), Wire("Hello", <<0>>, ""),
            Wire("Success", <<>>, "x")}

\* ----------------------------------------------------------- the registry
State_new_handshaken == [handshake |-> TRUE]

\* State::new: the handshake flag of a newly created state.
State_new == [handshake |-> FALSE]

\* $k(Default::default()): the command routes! builds to take the key from.
DefaultCmd(k) ==
    CASE k = "Hello" -> Hello(ArkeHello_default)
      [] k = "CreateUser" -> CreateUser(NewUser_default)
      [] k = "Goodbye" -> Goodbye(None)
      [] k = "InsertPrekeys" -> InsertPrekeys(<<>>)

\* HashMap::insert: a later entry replaces an earlier one under the same key.
MapInsert(map, key, value) ==
    [x \in DOMAIN map \cup {key} |-> IF x = key THEN value ELSE map[x]]

\* routes!: one handler, with its own state, per entry of the table, stored
\* under the discriminant of the entry's command.
RECURSIVE routes_from(_, _, _)
routes_from(table, i, map) ==
    IF i > Len(table) THEN map
    ELSE routes_from(table, i + 1,
             MapInsert(map, discriminant(DefaultCmd(table[i].k)),
                       [name |-> table[i].v, state |-> State_new]))

routes(table) == routes_from(table, 1, <<>>)

Route(k, v) == [k |-> k, v |-> v]

\* The command -> handler tables a server may be started with.
RouteTables ==
    { <<Route("Hello", "hello_handler"), Route("CreateUser", "create_user")>>,
      <<Route("InsertPrekeys", "create_user"), Route("Hello", "hello_handler"),
        Route("CreateUser", "create_user"),
        Route("InsertPrekeys", "insert_prekeys")>> }

\* ----------------------------------------------------------- the handlers
\* A handler's outcome: the state it leaves and the command it returns.
Outcome(state, result) == [state |-> state, result |-> result]

\* An error reaches the engine standalone (Error) or attached to a Goodbye.
Carriers(e) == {Error(e), IntoCommand(e)}

\* The Hello handler: equality on major and minor, patch ignored.
hello_handler(state, command) ==
    IF command.type # "Hello" THEN {Outcome(state, r) : r \in Carriers(ServerError)}
    ELSE IF /\ command.payload[1] = ArkeHello_default[1]
            /\ command.payload[2] = ArkeHello_default[2]
         THEN {Outcome([state EXCEPT !.handshake = TRUE], Hello(ArkeHello_default))}
         ELSE {Outcome(state, r) : r \in Carriers(ServerError)}

\* PublicKey::ec_key: the identity key parses as a PEM public key.
ec_key_ok(key) == key # 0

\* The signature parses and verifies, under the identity key, over the
\* bytes of the signed prekey.
verify(ik, spk, signer, signed) == signer # 0 /\ signer = ik /\ signed = spk

create_user_check_unverified(command) ==
    IF command.type # "CreateUser" THEN Error(ServerError)
    ELSE IF ~ec_key_ok(command.payload[2]) THEN Error(InvalidKey) ELSE NoCmd

\* The CreateUser handler up to its persistence call: the command it answers
\* with at once, or NoCmd when the bundle is to be inserted.
create_user_check(command) ==
    IF command.type # "CreateUser" THEN Error(ServerError)
    ELSE LET u == command.payload IN
         IF ~ec_key_ok(u[2]) THEN Error(InvalidKey)
         ELSE IF ~verify(u[2], u[3], u[4], u[5]) THEN Error(InvalidSignature)
         ELSE NoCmd

\* The CreateUser handler after Entity::insert returned Ok or Err.
create_user_done(inserted) == IF inserted THEN Success ELSE Error(ServerError)

\* CommandHandler::handle of any other handler: some command of the catalogue.
HandlerResponses ==
    {Success, Error(ServerError), Goodbye(None), IntoCommand(ServerError)}

\* send_command: the encoded command followed by a newline byte.
Frame(c) == [Encode(c) EXCEPT !.tail = "\n"]

\* Every shape of command of the catalogue, over a few payload values.
Bytes == {0, 1, 2, 255}
Catalogue ==
    {Hello(<<a, b, c>>) : a, b, c \in Bytes}
      \cup {CreateUser(NewUser(n, ik, 5, sk, sd)) :
                n \in {0, 1}, ik \in {0, 1}, sk \in {0, 1, 2}, sd \in {5, 6}}
      \cup {Success}
      \cup {Goodbye(None)} \cup {Goodbye(Some(e)) : e \in ErrorCodes}
      \cup {Error(e) : e \in ErrorCodes}
      \cup {InsertPrekeys(<<>>), InsertPrekeys(<<11>>), InsertPrekeys(<<11, 11>>),
            InsertPrekeys(<<12, 11, 13>>)}

\* Bytes that are no command of the catalogue.
ForeignWire ==
    {EmptyBuf, Wire("Bogus", <<>>, ""), Wire("Bogus", <<>>, "\n"),
     Wire("hello", <<0, 1, 0>>, "\n"), Wire("Welcome", <<1>>, "\n")}

\* The earlier catalogue (src/server.rs), #[repr(u32)]: Hello(String) = 0,
\* CreateUser, Goodbye(Option<CommandError>), numbered in this order.
Variants_v1 == <<"Hello", "CreateUser", "Goodbye">>

\* ArkeCommand::discriminant of the earlier catalogue.
discriminant_v1(c) ==
    (CHOOSE i \in 1..Len(Variants_v1) : Variants_v1[i] = c.type) - 1

\* Commands of the earlier catalogue; a String is the tuple of its bytes.
Catalogue_v1 ==
    {Hello(<<>>), Hello(<<104, 105>>), Cmd("CreateUser", <<>>),
     Goodbye(None), Goodbye(Some(ServerError))}

\* -------------------------------------------------------- the user record
\* The JSON text of a Vec<PublicKey>, as tokens: the brackets, the commas
\* and, for each key, the key itself (keys are positive).
LB == -1
RB == -2
COMMA == -3

RECURSIVE to_items(_)
to_items(keys) ==
    IF keys = <<>> THEN <<>>
    ELSE IF Len(keys) = 1 THEN <<keys[1]>>
    ELSE <<keys[1], COMMA>> \o to_items(Tail(keys))

\* serde_json::to_string(&stored)
to_string(keys) == <<LB>> \o to_items(keys) \o <<RB>>

RECURSIVE parse_items(_, _, _)
parse_items(text, i, acc) ==
    IF i > Len(text) \/ text[i] = RB THEN acc
    ELSE IF text[i] = COMMA THEN parse_items(text, i + 1, acc)
    ELSE parse_items(text, i + 1, Append(acc, text[i]))

\* serde_json::from_str::<Vec<PublicKey>>(text).unwrap()
from_str(text) == parse_items(text, 2, <<>>)

From_NewUser_swapped(value) ==
    [username |-> value[1], identity_key |-> value[3],
     signed_prekey |-> value[2], prekey_signature |-> <<value[4], value[5]>>,
     one_time_prekeys |-> to_string(<<>>)]

\* impl From<NewUser> for User
From_NewUser(value) ==
    [username |-> value[1], identity_key |-> value[2],
     signed_prekey |-> value[3], prekey_signature |-> <<value[4], value[5]>>,
     one_time_prekeys |-> to_string(<<>>)]

\* User::one_time_prekeys
one_time_prekeys(u) == from_str(u.one_time_prekeys)

\* keys.into_iter().for_each(|k| stored.push(k))
RECURSIVE push_all(_, _)
push_all(stored, keys) ==
    IF keys = <<>> THEN stored
    ELSE push_all(Append(stored, Head(keys)), Tail(keys))

RECURSIVE push_new(_, _)
push_new(stored, keys) ==
    IF keys = <<>> THEN stored
    ELSE push_new(IF \E i \in DOMAIN stored : stored[i] = Head(keys)
                  THEN stored ELSE Append(stored, Head(keys)),
                  Tail(keys))

insert_prekeys_dedup(u, keys) ==
    [u EXCEPT !.one_time_prekeys = to_string(push_new(from_str(@), keys))]

\* User::insert_prekeys
insert_prekeys(u, keys) ==
    [u EXCEPT !.one_time_prekeys = to_string(push_all(from_str(@), keys))]

pop_prekey_fifo(u) ==
    LET stored == from_str(u.one_time_prekeys) IN
    IF stored = <<>>
    THEN [user |-> [u EXCEPT !.one_time_prekeys = to_string(stored)], ret |-> None]
    ELSE [user |-> [u EXCEPT !.one_time_prekeys = to_string(Tail(stored))],
          ret |-> Some(Head(stored))]

\* User::pop_prekey: Vec::pop takes the last element, None when empty.
pop_prekey(u) ==
    LET stored == from_str(u.one_time_prekeys) IN
    IF stored = <<>>
    THEN [user |-> [u EXCEPT !.one_time_prekeys = to_string(stored)], ret |-> None]
    ELSE [user |-> [u EXCEPT !.one_time_prekeys =
                                to_string(SubSeq(stored, 1, Len(stored) - 1))],
          ret |-> Some(stored[Len(stored)])]

\* The one-time prekeys a client may upload, and the lists it uploads.
PreKeys == {11, 12, 13}
KeyLists ==
    {<<>>} \cup {<<k>> : k \in PreKeys} \cup {<<k, l>> : k, l \in PreKeys}

\* The registration bundles a User record is made from.
Bundles == {NewUser(1, 1, 5, 1, 5), NewUser(2, 2, 6, 2, 6)}

\* ------------------------------------------------------------- the state
VARIABLES
    listening,  \* the accept loop of start is running
    table,      \* the command -> handler table given to routes!
    handlers,   \* the registry: discriminant -> handler (name, state)
    lock,       \* the connection holding the registry mutex, or NoOwner
    conn,       \* the engine task of each connection
    user,       \* a User record
    last,       \* the last call made on the User record and what it returned
    popped,     \* the keys pop_prekey has returned, in order
    probe       \* a command with what encoding, decoding and routing make of it

engine == <<listening, table, handlers, lock, conn>>
data == <<user, last, popped, probe>>
vars == <<listening, table, handlers, lock, conn, user, last, popped, probe>>

\* A connection task before it is spawned.
FreshConn ==
    [pc |-> "free", buf |-> None, cmd |-> NoCmd, key |-> 0, handler |-> "",
     result |-> NoCmd,
     sent |-> NoCmd, decodeFailed |-> FALSE, nread |-> 0, ndecoded |-> 0,
     nhandled |-> 0, nwritten |-> 0, ninserts |-> 0, ioerr |-> FALSE]

\* No User record, no call on it and no command under study.
NoUser == [username |-> 0, identity_key |-> 0, signed_prekey |-> 0,
           prekey_signature |-> <<>>, one_time_prekeys |-> <<>>]
NoCall == [n |-> 0, op |-> "none", arg |-> <<>>, ret |-> <<>>]
NoProbe == [version |-> 0, cmd |-> NoCmd, disc |-> 0, wire |-> EmptyBuf,
            back |-> [ok |-> FALSE, cmd |-> NoCmd]]

DataIdle ==
    /\ user = NoUser
    /\ last = NoCall
    /\ popped = <<>>
    /\ probe = NoProbe

Init ==
    /\ listening = TRUE
    /\ table \in RouteTables
    /\ handlers = routes(table)
    /\ lock = NoOwner
    /\ conn = [c \in Conns |-> FreshConn]
    /\ DataIdle

TotalReads == LET RECURSIVE Sum(_)
                  Sum(n) == IF n = 0 THEN 0 ELSE conn[n].nread + Sum(n - 1)
              IN Sum(MaxConns)

\* ------------------------------------------------------- the accept loop
AcceptReady_inline(c) ==
    /\ listening
    /\ conn[c].pc = "free"
    /\ \A d \in Conns : d < c => conn[d].pc \in {"closed", "aborted", "panicked"}

\* start: the loop is back at listener.accept() as soon as the task of the
\* connection before is spawned; slot c is the next connection to arrive.
AcceptReady(c) ==
    /\ listening
    /\ conn[c].pc = "free"
    /\ \A d \in Conns : d < c => conn[d].pc # "free"

Arc_clone_fresh(map) ==
    [k \in DOMAIN map |-> [map[k] EXCEPT !.state = State_new]]

\* Arc::clone(&handlers): another handle on the one registry; the registry
\* the new task sees is the registry as it is.
Arc_clone(map) == map

\* listener.accept() returns a socket and tokio::spawn starts its task.
Accept(c) ==
    /\ AcceptReady(c)
    /\ conn' = [conn EXCEPT ![c].pc = "accepted"]
    /\ handlers' = Arc_clone(handlers)
    /\ UNCHANGED <<data, listening, table, lock>>

\* listener.accept() returns Err: start returns it, the loop is over.
AcceptFail ==
    /\ listening
    /\ listening' = FALSE
    /\ UNCHANGED <<data, table, handlers, lock, conn>>

\* --------------------------------------------------- the connection engine
\* The local variables of one turn of the 'connection loop.
EndTurn(rec) ==
    [rec EXCEPT !.buf = None, !.cmd = NoCmd, !.key = 0, !.handler = "",
                !.result = NoCmd, !.ninserts = 0]

Abort_retry(rec) == [rec EXCEPT !.ioerr = TRUE]

\* The `?` on an I/O result: the task returns the error.
Abort(rec) == EndTurn([rec EXCEPT !.pc = "aborted", !.ioerr = TRUE])

Unlock_never(owner) == owner

\* The registry mutex after the guard of a task is dropped.
Unlock(owner) == NoOwner

\* The registry mutex after a panicking task is unwound: tokio's mutex is
\* not poisoned, the guard is dropped like any other local.
Unwind_leak(owner) == owner

Unwind(owner) == Unlock(owner)

LockFree_always(owner) == TRUE

\* handlers.lock().await resolves only when no task holds the mutex.
LockFree(owner) == owner = NoOwner

\* stream.peer_addr()? and acceptor.accept(stream).await?
TlsAccept(c) ==
    /\ conn[c].pc = "accepted"
    /\ conn' = [conn EXCEPT ![c].pc = "reading"]
    /\ UNCHANGED <<data, listening, table, handlers, lock>>

TlsAcceptFail(c) ==
    /\ conn[c].pc = "accepted"
    /\ conn' = [conn EXCEPT ![c] = Abort(@)]
    /\ UNCHANGED <<data, listening, table, handlers, lock>>

OnRead_lenient(rec, b) ==
    LET r == Decode(b) IN
    IF r.ok
    THEN [rec EXCEPT !.pc = "lock_wait", !.buf = Some(b), !.cmd = r.cmd,
                     !.sent = NoCmd, !.nread = @ + 1, !.ndecoded = @ + 1]
    ELSE [rec EXCEPT !.pc = "reading", !.decodeFailed = TRUE,
                     !.sent = NoCmd, !.nread = @ + 1]

OnRead_skip_empty(rec, b) ==
    LET r == Decode(b) IN
    IF b = EmptyBuf
    THEN [rec EXCEPT !.sent = NoCmd, !.nread = @ + 1]
    ELSE IF r.ok
    THEN [rec EXCEPT !.pc = "lock_wait", !.buf = Some(b), !.cmd = r.cmd,
                     !.sent = NoCmd, !.nread = @ + 1, !.ndecoded = @ + 1]
    ELSE [rec EXCEPT !.pc = "send_goodbye", !.buf = Some(b),
                     !.decodeFailed = TRUE, !.sent = NoCmd, !.nread = @ + 1]

\* The engine's step after a read of the bytes b: decode, then wait for the
\* registry or prepare the farewell.
OnRead(rec, b) ==
    LET r == Decode(b) IN
    IF r.ok
    THEN [rec EXCEPT !.pc = "lock_wait", !.buf = Some(b), !.cmd = r.cmd,
                     !.sent = NoCmd, !.nread = @ + 1, !.ndecoded = @ + 1]
    ELSE [rec EXCEPT !.pc = "send_goodbye", !.buf = Some(b),
                     !.decodeFailed = TRUE, !.sent = NoCmd, !.nread = @ + 1]

\* stream.read(&mut buffer).await returns Ok(n), n = 0 included.
Read(c) ==
    /\ conn[c].pc = "reading"
    /\ TotalReads < MaxReads
    /\ \E b \in WireInputs : conn' = [conn EXCEPT ![c] = OnRead(@, b)]
    /\ UNCHANGED <<data, listening, table, handlers, lock>>

ReadFail(c) ==
    /\ conn[c].pc = "reading"
    /\ conn' = [conn EXCEPT ![c] = Abort(@)]
    /\ UNCHANGED <<data, listening, table, handlers, lock>>

\* let mut handlers = handlers.lock().await
Lock(c) ==
    /\ conn[c].pc = "lock_wait"
    /\ LockFree(lock)
    /\ lock' = c
    /\ conn' = [conn EXCEPT ![c].pc = "dispatch"]
    /\ UNCHANGED <<data, listening, table, handlers>>

Lookup_any(map, command) ==
    [found |-> DOMAIN map # {}, key |-> CHOOSE k \in DOMAIN map : TRUE]

Lookup_gated(map, command) ==
    LET k == discriminant(command) IN
    [found |-> /\ k \in DOMAIN map
               /\ \/ command.type = "Hello"
                  \/ \E h \in DOMAIN map : map[h].state.handshake,
     key |-> k]

\* handlers.get_mut(&command.discriminant())
Lookup(map, command) ==
    LET k == discriminant(command) IN
    [found |-> k \in DOMAIN map, key |-> k]

Dispatch_take(c) ==
    /\ conn[c].pc = "dispatch"
    /\ LET l == Lookup(handlers, conn[c].cmd) IN
       IF l.found
       THEN /\ conn' = [conn EXCEPT ![c].pc = "handling", ![c].key = l.key,
                                    ![c].handler = handlers[l.key].name,
                                    ![c].nhandled = @ + 1]
            /\ lock' = lock
            /\ handlers' = [k \in DOMAIN handlers \ {l.key} |-> handlers[k]]
       ELSE /\ conn' = [conn EXCEPT ![c] = EndTurn([@ EXCEPT !.pc = "panicked"])]
            /\ lock' = Unwind(lock)
            /\ handlers' = handlers
    /\ UNCHANGED <<data, listening, table>>

\* .expect(..).handle(command): the handler is entered, or the task panics
\* and the unwinding drops the guard.
Dispatch(c) ==
    /\ conn[c].pc = "dispatch"
    /\ LET l == Lookup(handlers, conn[c].cmd) IN
       IF l.found
       THEN /\ conn' = [conn EXCEPT ![c].pc = "handling", ![c].key = l.key,
                                    ![c].handler = handlers[l.key].name,
                                    ![c].nhandled = @ + 1]
            /\ lock' = lock
       ELSE /\ conn' = [conn EXCEPT ![c] = EndTurn([@ EXCEPT !.pc = "panicked"])]
            /\ lock' = Unwind(lock)
    /\ UNCHANGED <<data, listening, table, handlers>>

AfterHandle_hangup(result) == "shutdown"

AfterHandle_unsent(result) ==
    IF result.type = "Goodbye" THEN "shutdown" ELSE "reading"

\* if let ArkeCommand::Goodbye(err) = result { break } else { send_command }
AfterHandle(result) == IF result.type = "Goodbye" THEN "shutdown" ELSE "writing"

Respond_early(c, result) ==
    /\ conn' = [conn EXCEPT ![c].result = result, ![c].pc = AfterHandle(result)]
    /\ lock' = Unlock(lock)

\* handle returned `result`: leaving the loop drops the guard.
Respond(c, result) ==
    /\ conn' = [conn EXCEPT ![c].result = result, ![c].pc = AfterHandle(result)]
    /\ lock' = IF AfterHandle(result) = "shutdown" THEN Unlock(lock) ELSE lock

HandleHello(c) ==
    /\ conn[c].pc = "handling"
    /\ conn[c].handler = "hello_handler"
    /\ \E o \in hello_handler(handlers[conn[c].key].state, conn[c].cmd) :
          /\ handlers' = [handlers EXCEPT ![conn[c].key].state = o.state]
          /\ Respond(c, o.result)
    /\ UNCHANGED <<data, listening, table>>

HandleCreateUser(c) ==
    /\ conn[c].pc = "handling"
    /\ conn[c].handler = "create_user"
    /\ LET r == create_user_check(conn[c].cmd) IN
       IF r = NoCmd
       THEN /\ conn' = [conn EXCEPT ![c].pc = "inserting", ![c].ninserts = @ + 1]
            /\ lock' = lock
       ELSE Respond(c, r)
    /\ UNCHANGED <<data, listening, table, handlers>>

\* Entity::insert(&db).await returns Ok or Err.
Insert(c) ==
    /\ conn[c].pc = "inserting"
    /\ \E inserted \in BOOLEAN : Respond(c, create_user_done(inserted))
    /\ UNCHANGED <<data, listening, table, handlers>>

HandleOther(c) ==
    /\ conn[c].pc = "handling"
    /\ conn[c].handler \notin {"hello_handler", "create_user"}
    /\ \E r \in HandlerResponses : Respond(c, r)
    /\ UNCHANGED <<data, listening, table, handlers>>

Write_keep(c) ==
    /\ conn[c].pc = "writing"
    /\ conn' = [conn EXCEPT ![c] = EndTurn([@ EXCEPT !.pc = "reading",
                                  !.sent = conn[c].result, !.nwritten = @ + 1])]
    /\ lock' = lock
    /\ UNCHANGED <<data, listening, table, handlers>>

\* send_command wrote the response; the turn ends and the guard is dropped.
Write(c) ==
    /\ conn[c].pc = "writing"
    /\ conn' = [conn EXCEPT ![c] = EndTurn([@ EXCEPT !.pc = "reading",
                                  !.sent = conn[c].result, !.nwritten = @ + 1])]
    /\ lock' = Unlock(lock)
    /\ UNCHANGED <<data, listening, table, handlers>>

WriteFail(c) ==
    /\ conn[c].pc = "writing"
    /\ conn' = [conn EXCEPT ![c] = Abort(@)]
    /\ lock' = Unlock(lock)
    /\ UNCHANGED <<data, listening, table, handlers>>

\* The command the engine sends when the bytes did not decode.
Farewell == Goodbye(None)

SendGoodbye(c) ==
    /\ conn[c].pc = "send_goodbye"
    /\ conn' = [conn EXCEPT ![c].pc = "shutdown", ![c].buf = None,
                            ![c].sent = Farewell, ![c].nwritten = @ + 1]
    /\ UNCHANGED <<data, listening, table, handlers, lock>>

SendGoodbyeFail(c) ==
    /\ conn[c].pc = "send_goodbye"
    /\ conn' = [conn EXCEPT ![c] = Abort(@)]
    /\ UNCHANGED <<data, listening, table, handlers, lock>>

\* stream.shutdown().await?
Shutdown(c) ==
    /\ conn[c].pc = "shutdown"
    /\ conn' = [conn EXCEPT ![c] = EndTurn([@ EXCEPT !.pc = "closed"])]
    /\ UNCHANGED <<data, listening, table, handlers, lock>>

ShutdownFail(c) ==
    /\ conn[c].pc = "shutdown"
    /\ conn' = [conn EXCEPT ![c] = Abort(@)]
    /\ UNCHANGED <<data, listening, table, handlers, lock>>

Next ==
    \/ AcceptFail
    \/ \E c \in Conns :
          \/ Accept(c) \/ TlsAccept(c) \/ TlsAcceptFail(c)
          \/ Read(c) \/ ReadFail(c)
          \/ Lock(c) \/ Dispatch(c)
          \/ HandleHello(c) \/ HandleCreateUser(c) \/ Insert(c) \/ HandleOther(c)
          \/ Write(c) \/ WriteFail(c)
          \/ SendGoodbye(c) \/ SendGoodbyeFail(c)
          \/ Shutdown(c) \/ ShutdownFail(c)

Spec == Init /\ [][Next]_vars

\* ------------------------------------------ the engine under fair scheduling
\* One read of each kind: answered with a response or with a Goodbye,
\* persisted, without a handler, and not decoding.
LiveInputs ==
    {Encode(Hello(ArkeHello_default)), Encode(Hello(<<1, VersionMinor, 0>>)),
     Encode(CreateUser(NewUser(1, 1, 5, 1, 5))), Encode(Success), EmptyBuf}

\* A server started with the Hello and CreateUser handlers.
InitLive ==
    /\ Init
    /\ table = <<Route("Hello", "hello_handler"),
                 Route("CreateUser", "create_user")>>

ReadLive(c) ==
    /\ conn[c].pc = "reading"
    /\ TotalReads < MaxReads
    /\ \E b \in LiveInputs : conn' = [conn EXCEPT ![c] = OnRead(@, b)]
    /\ UNCHANGED <<data, listening, table, handlers, lock>>

\* The connection tasks; the accept loop keeps running.
NextLive ==
    \E c \in Conns :
        \/ Accept(c) \/ TlsAccept(c) \/ TlsAcceptFail(c)
        \/ ReadLive(c) \/ ReadFail(c)
        \/ Lock(c) \/ Dispatch(c)
        \/ HandleHello(c) \/ HandleCreateUser(c) \/ Insert(c)
        \/ Write(c) \/ WriteFail(c)
        \/ SendGoodbye(c) \/ SendGoodbyeFail(c)
        \/ Shutdown(c) \/ ShutdownFail(c)

\* The runtime schedules every task that can run; tokio's mutex hands the
\* lock to its waiters in the order they asked (strong fairness on Lock);
\* every handle call returns, every write completes or fails, and so does
\* every shutdown.
Fairness ==
    \A c \in Conns :
        /\ SF_vars(Lock(c))
        /\ WF_vars(Dispatch(c))
        /\ WF_vars(HandleHello(c) \/ HandleCreateUser(c) \/ Insert(c))
        /\ WF_vars(Write(c) \/ WriteFail(c))
        /\ WF_vars(Shutdown(c) \/ ShutdownFail(c))

SpecLive == InitLive /\ [][NextLive]_vars /\ Fairness

\* The same engine with no assumption on scheduling.
SpecUnfair == InitLive /\ [][NextLive]_vars

\* ------------------------------------------- calls on one User record
\* The server is not running while the record is exercised.
EngineIdle ==
    /\ listening = FALSE
    /\ table = <<>>
    /\ handlers = <<>>
    /\ lock = NoOwner
    /\ conn = [c \in Conns |-> FreshConn]

InitUser ==
    /\ EngineIdle
    /\ DataIdle

Call(op, arg, ret) == [n |-> last.n + 1, op |-> op, arg |-> arg, ret |-> ret]

\* User::from(bundle): the record the calls below are made on.
CallFrom ==
    /\ user = NoUser
    /\ \E b \in Bundles :
          /\ user' = From_NewUser(b)
          /\ last' = [NoCall EXCEPT !.op = "from", !.arg = b]
    /\ UNCHANGED <<engine, popped, probe>>

CallInsert ==
    /\ user # NoUser
    /\ last.n < MaxOps
    /\ \E keys \in KeyLists :
          /\ user' = insert_prekeys(user, keys)
          /\ last' = Call("insert_prekeys", keys, None)
    /\ UNCHANGED <<engine, popped, probe>>

CallPop ==
    /\ user # NoUser
    /\ last.n < MaxOps
    /\ LET r == pop_prekey(user) IN
          /\ user' = r.user
          /\ last' = Call("pop_prekey", <<>>, r.ret)
          /\ popped' = popped \o r.ret
    /\ UNCHANGED <<engine, probe>>

CallRead ==
    /\ user # NoUser
    /\ last.n < MaxOps
    /\ last' = Call("one_time_prekeys", <<>>, one_time_prekeys(user))
    /\ UNCHANGED <<engine, user, popped, probe>>

NextUser == CallFrom \/ CallInsert \/ CallPop \/ CallRead

SpecUser == InitUser /\ [][NextUser]_vars

\* --------------------------------------- the earlier engine (src/server.rs)
\* Result<ArkeCommand, CommandError>
Ok(c) == [ok |-> TRUE, cmd |-> c, err |-> 0]
Err(e) == [ok |-> FALSE, cmd |-> NoCmd, err |-> e]

\* The payloads of the earlier catalogue: Hello carries any string,
\* CreateUser nothing, Goodbye an optional ServerError.
ValidPayload_v1(t, p) ==
    CASE t = "Hello" -> TRUE
      [] t = "CreateUser" -> p = <<>>
      [] t = "Goodbye" -> p \in {None, Some(ServerError)}

\* serde_json::from_slice::<ArkeCommand>(&buffer[..n]) of the earlier engine.
Decode_v1(b) ==
    IF /\ b.tag \in {Variants_v1[i] : i \in 1..Len(Variants_v1)}
       /\ ValidPayload_v1(b.tag, b.body)
       /\ b.tail \in {"", "\n"}
    THEN [ok |-> TRUE, cmd |-> Cmd(b.tag, b.body)]
    ELSE [ok |-> FALSE, cmd |-> NoCmd]

WireInputs_v1 ==
    {Encode(c) : c \in Catalogue_v1} \cup {EmptyBuf, Wire("Success", <<>>, "")}

\* What the body of a handler function may return, `?` on an error included.
BodyResults ==
    {Ok(Hello(<<104, 105>>)), Ok(Goodbye(None)), Err(ServerError)}

\* The error literal a handler is declared with; no error of a body.
MismatchError == 4

\* The state a generated handler is constructed around; `runs` counts the
\* executions of the handler body.
GeneratedState == [handshake |-> FALSE, runs |-> 0]

\* The body of the handler function, run once on `state`: it may change the
\* state and returns Ok or Err.
body(state) ==
    {Outcome([st EXCEPT !.runs = @ + 1], r) :
        st \in {state, [state EXCEPT !.handshake = TRUE]}, r \in BodyResults}

fn_generated_unmatched(pattern, state, command) == body(state)

\* The function conversation_handler generates: the body runs on a command
\* of the pattern, any other command is answered with the mismatch error.
fn_generated(pattern, state, command) ==
    IF command.type = pattern
    THEN body(state)
    ELSE {Outcome(state, Err(MismatchError))}

\* A generated handler struct: new(state), and the pattern of its function.
Generated(pattern) == [name |-> "generated", pattern |-> pattern,
                       state |-> GeneratedState]

\* The handler maps an earlier server may be configured with.
Registries_v1 ==
    { (0 :> Generated("Hello") @@ 1 :> Generated("CreateUser")),
      (0 :> Generated("Hello") @@ 2 :> Generated("Hello")) }

InitV1 ==
    /\ listening = TRUE
    /\ table = <<>>
    /\ handlers \in Registries_v1
    /\ lock = NoOwner
    /\ conn = [c \in Conns |-> FreshConn]
    /\ DataIdle

OnReadV1(rec, b) ==
    LET r == Decode_v1(b) IN
    IF r.ok
    THEN [rec EXCEPT !.pc = "lock_wait", !.buf = Some(b), !.cmd = r.cmd,
                     !.sent = NoCmd, !.nread = @ + 1, !.ndecoded = @ + 1]
    ELSE [rec EXCEPT !.pc = "send_goodbye", !.buf = Some(b),
                     !.decodeFailed = TRUE, !.sent = NoCmd, !.nread = @ + 1]

ReadV1(c) ==
    /\ conn[c].pc = "reading"
    /\ TotalReads < MaxReads
    /\ \E b \in WireInputs_v1 : conn' = [conn EXCEPT ![c] = OnReadV1(@, b)]
    /\ UNCHANGED <<data, listening, table, handlers, lock>>

\* handlers.get_mut(&command.discriminant())
LookupV1(map, command) ==
    LET k == discriminant_v1(command) IN
    [found |-> k \in DOMAIN map, key |-> k]

DispatchV1(c) ==
    /\ conn[c].pc = "dispatch"
    /\ LET l == LookupV1(handlers, conn[c].cmd) IN
       IF l.found
       THEN /\ conn' = [conn EXCEPT ![c].pc = "handling", ![c].key = l.key,
                                    ![c].handler = handlers[l.key].name,
                                    ![c].nhandled = @ + 1]
            /\ lock' = lock
       ELSE /\ conn' = [conn EXCEPT ![c] = EndTurn([@ EXCEPT !.pc = "panicked"])]
            /\ lock' = Unwind(lock)
    /\ UNCHANGED <<data, listening, table, handlers>>

\* send_command(&mut stream, result.unwrap()): Ok(command) is written, Err
\* panics and the unwinding drops the guard.
HandleV1(c) ==
    /\ conn[c].pc = "handling"
    /\ LET h == handlers[conn[c].key] IN
       \E o \in fn_generated(h.pattern, h.state, conn[c].cmd) :
          /\ handlers' = [handlers EXCEPT ![conn[c].key].state = o.state]
          /\ IF o.result.ok
             THEN /\ conn' = [conn EXCEPT ![c].result = o.result.cmd,
                                          ![c].pc = "writing"]
                  /\ lock' = lock
             ELSE /\ conn' = [conn EXCEPT
                                 ![c] = EndTurn([@ EXCEPT !.pc = "panicked"])]
                  /\ lock' = Unwind(lock)
    /\ UNCHANGED <<data, listening, table>>

NextV1 ==
    \/ AcceptFail
    \/ \E c \in Conns :
          \/ Accept(c) \/ TlsAccept(c) \/ TlsAcceptFail(c)
          \/ ReadV1(c) \/ ReadFail(c)
          \/ Lock(c) \/ DispatchV1(c) \/ HandleV1(c)
          \/ Write(c) \/ WriteFail(c)
          \/ SendGoodbye(c) \/ SendGoodbyeFail(c)
          \/ Shutdown(c) \/ ShutdownFail(c)

SpecV1 == InitV1 /\ [][NextV1]_vars

\* ------------------------------------- calls on the generated handlers
InitHandler ==
    /\ listening = FALSE
    /\ table = <<>>
    /\ handlers \in Registries_v1
    /\ lock = NoOwner
    /\ conn = [c \in Conns |-> FreshConn]
    /\ DataIdle

\* handle(command) on the handler registered under key k.
CallHandle ==
    /\ last.n < MaxOps
    /\ \E k \in DOMAIN handlers, command \in Catalogue_v1 :
          \E o \in fn_generated(handlers[k].pattern, handlers[k].state, command) :
             /\ handlers' = [handlers EXCEPT ![k].state = o.state]
             /\ last' = Call("handle", [key |-> k, cmd |-> command], o.result)
    /\ UNCHANGED <<listening, table, lock, conn, user, popped, probe>>

NextHandler == CallHandle

SpecHandler == InitHandler /\ [][NextHandler]_vars

\* ------------------------------------- the catalogue, command by command
InitWire ==
    /\ EngineIdle
    /\ DataIdle

\* A command of the catalogue is routed, sent and decoded again.
ProbeCommand ==
    /\ \E c \in Catalogue :
          probe' = [version |-> 2, cmd |-> c, disc |-> discriminant(c),
                    wire |-> Frame(c), back |-> Decode(Frame(c))]
    /\ UNCHANGED <<engine, user, last, popped>>

\* Bytes that are no command are decoded.
ProbeBytes ==
    /\ \E b \in ForeignWire :
          probe' = [version |-> 2, cmd |-> NoCmd, disc |-> 0, wire |-> b,
                    back |-> Decode(b)]
    /\ UNCHANGED <<engine, user, last, popped>>

\* A command of the earlier catalogue is routed.
ProbeEarlier ==
    /\ \E c \in Catalogue_v1 :
          probe' = [version |-> 1, cmd |-> c, disc |-> discriminant_v1(c),
                    wire |-> EmptyBuf, back |-> [ok |-> FALSE, cmd |-> NoCmd]]
    /\ UNCHANGED <<engine, user, last, popped>>

NextWire == ProbeCommand \/ ProbeBytes \/ ProbeEarlier

SpecWire == InitWire /\ [][NextWire]_vars

\* ================================================================ claims
\* The positions at which a task holds the registry guard.
Critical == {"dispatch", "handling", "inserting", "writing"}
InHandle(c) == conn[c].pc \in {"handling", "inserting"}

\* C1: a connection whose read did not decode (a zero-length read included)
\* never holds the registry lock and has no handler invoked for that read;
\* it reads nothing further; once it is shutting down or closed it has
\* written exactly one command for that read, Goodbye(None); before the
\* farewell nothing has been written, and the stream is shut down only after
\* the farewell was written.
DecodeFailureFarewell ==
    \A c \in Conns :
        conn[c].decodeFailed =>
            /\ lock # c
            /\ conn[c].pc \in {"send_goodbye", "shutdown", "closed", "aborted"}
            /\ conn[c].ndecoded = conn[c].nread - 1
            /\ conn[c].nhandled = conn[c].ndecoded
            /\ conn[c].pc = "send_goodbye" =>
                  conn[c].sent = NoCmd /\ conn[c].nwritten = conn[c].nread - 1
            /\ conn[c].pc \in {"shutdown", "closed"} =>
                  conn[c].sent = Goodbye(None) /\ conn[c].nwritten = conn[c].nread
            /\ conn[c].pc = "aborted" =>
                  /\ conn[c].nwritten \in {conn[c].nread - 1, conn[c].nread}
                  /\ conn[c].sent \in {NoCmd, Goodbye(None)}

DecodeFailureWitness ==
    \E c \in Conns :
        /\ conn[c].decodeFailed /\ conn[c].pc = "closed"
        /\ conn[c].nread = 2 /\ conn[c].sent = Goodbye(None)

\* C2: when a handler has returned Goodbye(_) and the connection goes on to
\* shut its stream down, that Goodbye has been written to the client.
GoodbyeResultWritten ==
    \A c \in Conns :
        (conn[c].pc = "shutdown" /\ conn[c].result.type = "Goodbye") =>
            conn[c].sent = conn[c].result

\* C3: a read happens only when every earlier read of the connection has
\* been answered, and a response that is written is the result of the handle
\* call of this turn, whose command is the latest one decoded: the i-th write
\* answers the i-th decoded command.
SequentialTurns ==
    [][\A c \in Conns :
          /\ conn'[c].nread # conn[c].nread =>
                /\ conn[c].pc = "reading"
                /\ conn'[c].nread = conn[c].nread + 1
                /\ conn[c].nwritten = conn[c].nread
                /\ conn[c].nhandled = conn[c].nread
          /\ (conn'[c].nwritten # conn[c].nwritten /\ ~conn[c].decodeFailed) =>
                /\ conn[c].pc = "writing"
                /\ conn[c].result # NoCmd
                /\ conn'[c].sent = conn[c].result
                /\ conn[c].nhandled = conn[c].ndecoded
                /\ conn'[c].nwritten = conn[c].ndecoded
                /\ conn[c].ndecoded = conn[c].nread]_vars

SequentialWitness ==
    \E c \in Conns :
        conn[c].pc = "reading" /\ conn[c].nread = 2 /\ conn[c].nwritten = 2

\* C4: a connection is inside a handle call only while it holds the registry
\* mutex, so no two connections are inside a handle call at once.
OneHandlerAtATime ==
    /\ \A c \in Conns : InHandle(c) => lock = c
    /\ \A c, d \in Conns : (InHandle(c) /\ InHandle(d)) => c = d

OneHandlerWitness ==
    \E c, d \in Conns :
        c # d /\ conn[c].pc = "inserting" /\ lock = c /\ conn[d].pc = "lock_wait"

\* C5: a connection whose command has no registered handler is terminated
\* alone: it has written no response for that command and no handler ran for
\* it, it does not keep the registry lock, the accept loop can still take the
\* next connection, and a connection waiting for the lock can acquire it
\* unless a live connection is in its critical section.
MissingHandlerIsLocal ==
    (\E p \in Conns : conn[p].pc = "panicked") =>
        /\ \A c \in Conns :
              conn[c].pc = "panicked" =>
                  /\ lock # c
                  /\ conn[c].sent = NoCmd
                  /\ conn[c].nwritten = conn[c].nread - 1
                  /\ conn[c].nhandled = conn[c].ndecoded - 1
                  /\ ~conn[c].ioerr
        /\ \A c \in Conns :
              (/\ listening
               /\ conn[c].pc = "free"
               /\ \A d \in Conns : d < c => conn[d].pc # "free") =>
                  ENABLED Accept(c)
        /\ \A d \in Conns :
              conn[d].pc = "lock_wait" =>
                  \/ ENABLED Lock(d)
                  \/ \E e \in Conns : conn[e].pc \in Critical /\ lock = e

MissingHandlerWitness ==
    \E c, d \in Conns :
        /\ conn[c].pc = "panicked" /\ conn[c].nread = 1
        /\ conn[d].pc = "handling" /\ lock = d

\* C6: the step on which an I/O operation of a connection fails ends its
\* task without a further read, write or handler call and changes nothing of
\* any other connection, of the registry or of the accept loop; from then on
\* the connection does nothing, and it holds no lock.
IoErrorAborts ==
    [][\A c \in Conns :
          /\ (conn'[c].ioerr /\ ~conn[c].ioerr) =>
                /\ conn'[c].pc = "aborted"
                /\ conn'[c].nread = conn[c].nread
                /\ conn'[c].nwritten = conn[c].nwritten
                /\ conn'[c].nhandled = conn[c].nhandled
                /\ conn'[c].sent = conn[c].sent
                /\ lock' # c
                /\ \A d \in Conns : d # c => conn'[d] = conn[d]
                /\ handlers' = handlers
                /\ listening' = listening
          /\ conn[c].ioerr => (conn'[c] = conn[c] /\ lock' # c)]_vars

IoErrorWitness ==
    \E c, d \in Conns :
        /\ c # d
        /\ conn[c].ioerr /\ conn[c].nhandled = 1 /\ conn[c].nwritten = 0
        /\ conn[d].pc = "writing"

\* C7: whatever the accepted connections are doing, a running accept loop
\* can accept the next connection and start its task.
AcceptNeverWaits ==
    \A c \in Conns :
        (/\ listening
         /\ conn[c].pc = "free"
         /\ \A d \in Conns : d < c => conn[d].pc # "free") =>
            ENABLED Accept(c)

AcceptWitness ==
    \E c, d \in Conns :
        /\ d < c /\ conn[c].pc = "free" /\ listening
        /\ conn[d].pc = "inserting" /\ lock = d

\* The handler the table registers for a variant: the $v of the last entry
\* whose $k is that variant.
LastRoute(t, variant) ==
    LET I == {i \in DOMAIN t : t[i].k = variant} IN
    t[CHOOSE i \in I : \A j \in I : j <= i].v

\* C8: a handler that is running was found under the discriminant of the
\* command it was given, it is the handler routes! registered for that
\* command's variant, and every decoded command so far was given to one
\* handler.
DispatchByDiscriminant ==
    \A c \in Conns :
        conn[c].pc \in {"handling", "inserting", "writing"} =>
            /\ conn[c].key = discriminant(conn[c].cmd)
            /\ conn[c].key \in DOMAIN handlers
            /\ conn[c].handler = handlers[conn[c].key].name
            /\ \E i \in DOMAIN table :
                  /\ table[i].k = conn[c].cmd.type
                  /\ table[i].v = conn[c].handler
            /\ conn[c].handler = LastRoute(table, conn[c].cmd.type)
            /\ conn[c].nhandled = conn[c].ndecoded

DispatchWitness ==
    \E c \in Conns :
        /\ conn[c].pc = "handling"
        /\ conn[c].cmd.type = "InsertPrekeys"
        /\ conn[c].handler = "insert_prekeys"
        /\ conn[c].nhandled = 2

\* Equality on major and minor, whatever the patch.
VersionMatches(v) == v[1] = VersionMajor /\ v[2] = VersionMinor

RegistrationOrder ==
    \A c \in Conns :
        LET u == conn[c].cmd.payload
            keyOk == u[2] # 0
            sigOk == u[4] = u[2] /\ u[5] = u[3]
        IN
        (conn[c].handler = "create_user" /\ conn[c].cmd.type = "CreateUser") =>
            /\ conn[c].ninserts > 0 => (keyOk /\ sigOk /\ conn[c].ninserts = 1)
            /\ conn[c].pc = "inserting" => conn[c].ninserts = 1
            /\ conn[c].pc = "writing" =>
                  /\ ~keyOk =>
                        conn[c].result = Error(InvalidKey) /\ conn[c].ninserts = 0
                  /\ (keyOk /\ ~sigOk) =>
                        /\ conn[c].result = Error(InvalidSignature)
                        /\ conn[c].ninserts = 0
                  /\ (keyOk /\ sigOk) =>
                        /\ conn[c].ninserts = 1
                        /\ conn[c].result \in {Success, Error(ServerError)}

RegistrationWitness ==
    \E c, d \in Conns :
        /\ conn[c].pc = "writing" /\ conn[c].result = Success
        /\ conn[c].ninserts = 1
        /\ conn[d].sent = Error(InvalidSignature)

\* The pool of the record, as a sequence of keys.
Pool == one_time_prekeys(user)

\* C11: no key is returned by two pop_prekey calls, and the key a
\* pop_prekey call has just returned is not in the pool any more.
PoppedKeyNeverReused ==
    /\ \A i, j \in DOMAIN popped : popped[i] = popped[j] => i = j
    /\ (last.op = "pop_prekey" /\ last.ret # None) =>
           \A i \in DOMAIN Pool : Pool[i] # last.ret[1]

\* The pool after the step.
PoolAfter == one_time_prekeys(user')

\* C12: a pop_prekey call on a non-empty pool returns the last key of the
\* pool, the most recently inserted one not yet popped, and leaves the keys
\* before it as they were; on an empty pool it returns no key and the pool
\* stays empty.
PopIsLifo ==
    [][(last'.n # last.n /\ last'.op = "pop_prekey") =>
          IF Pool = <<>>
          THEN last'.ret = None /\ PoolAfter = <<>> /\ popped' = popped
          ELSE /\ last'.ret = Some(Pool[Len(Pool)])
               /\ Len(PoolAfter) = Len(Pool) - 1
               /\ \A i \in DOMAIN PoolAfter : PoolAfter[i] = Pool[i]
               /\ popped' = Append(popped, Pool[Len(Pool)])]_vars

\* Inserting [11, 12, 13] and popping twice yields 13 then 12; a later pop
\* on the emptied pool returns no key.
PopWitness ==
    popped = <<13, 12>> /\ Pool = <<11>> /\ last.op = "pop_prekey"

PopEmptyWitness ==
    last.op = "pop_prekey" /\ last.ret = None /\ last.n = 3 /\ popped # <<>>

\* C13: an insert_prekeys call leaves the pool as it was, followed by the
\* keys of the call in the order given, duplicates included; an empty list
\* changes nothing.
InsertAppends ==
    [][(last'.n # last.n /\ last'.op = "insert_prekeys") =>
          /\ PoolAfter = Pool \o last'.arg
          /\ Len(PoolAfter) = Len(Pool) + Len(last'.arg)
          /\ last'.arg = <<>> => user' = user
          /\ popped' = popped]_vars

InsertWitness ==
    /\ last.op = "insert_prekeys" /\ last.arg = <<12, 11>>
    /\ Pool = <<11, 11, 12, 11>>

\* The number the catalogue gives each variant.
TagNumber(t) ==
    CASE t = "Hello" -> 0
      [] t = "CreateUser" -> 1
      [] t = "Success" -> 2
      [] t = "Goodbye" -> 3
      [] t = "Error" -> 4
      [] t = "InsertPrekeys" -> 5

\* C14: the discriminant of a command is the number of its variant, 0 for
\* Hello up to 5 for InsertPrekeys, whatever its payload.
DiscriminantIsTag ==
    (probe.version = 2 /\ probe.cmd # NoCmd) =>
        probe.disc = TagNumber(probe.cmd.type)

DiscriminantWitness ==
    /\ probe.version = 2
    /\ probe.cmd = InsertPrekeys(<<12, 11, 13>>)
    /\ probe.disc = 5

\* C15: a variant of the earlier catalogue that the later catalogue has too
\* has the same discriminant in both.
DiscriminantsStable ==
    (/\ probe.version = 1
     /\ \E i \in DOMAIN Variants : Variants[i] = probe.cmd.type) =>
        probe.disc = discriminant(probe.cmd)

HandlerFailureContained ==
    \A c \in Conns :
        conn[c].pc = "panicked" => conn[c].nhandled < conn[c].ndecoded

\* C20 as stated: the bytes handed to decode are never the empty span.
NeverDecodesEmpty ==
    \A c \in Conns : conn[c].buf # Some(EmptyBuf)

\* C20: the span of every read, a read of no bytes included, is handed whole
\* to decode as one message: a command in hand is the decoding of the span
\* read, a farewell is due exactly when the span does not decode, every read
\* is decoded once, and a span of no bytes does not decode.
ReadSpanDecodedWhole ==
    \A c \in Conns :
        /\ conn[c].pc = "lock_wait" =>
              /\ conn[c].buf # None
              /\ Decode(conn[c].buf[1]) = [ok |-> TRUE, cmd |-> conn[c].cmd]
        /\ conn[c].pc = "send_goodbye" =>
              /\ conn[c].buf # None
              /\ ~Decode(conn[c].buf[1]).ok
        /\ conn[c].nread =
              conn[c].ndecoded + (IF conn[c].decodeFailed THEN 1 ELSE 0)
        /\ conn[c].buf = Some(EmptyBuf) => conn[c].pc = "send_goodbye"

EmptyReadWitness ==
    \E c \in Conns :
        /\ conn[c].buf = Some(EmptyBuf)
        /\ conn[c].pc = "send_goodbye"
        /\ conn[c].nread = 1

\* C18: the handlers' state is one state for all connections: no step but
\* the return of a handler changes it (accepting, closing or losing a
\* connection creates and resets nothing), and a handshake flag that is set
\* stays set for whichever connection is served next.
StateSharedByConnections ==
    [][/\ (\A c \in Conns : conn[c].pc = "handling" => conn'[c].pc = "handling")
              => handlers' = handlers
       /\ \A k \in DOMAIN handlers :
              handlers[k].state.handshake =>
                  /\ k \in DOMAIN handlers'
                  /\ handlers'[k].state.handshake]_vars

\* Connection 1 set the flag and is gone; connection 2, which sent no Hello,
\* is being served and the flag is still set.
SharedStateWitness ==
    /\ conn[1].pc \in {"closed", "aborted"}
    /\ conn[2].pc = "handling"
    /\ conn[2].nread = 1
    /\ conn[2].cmd.type = "CreateUser"
    /\ \E k \in DOMAIN handlers :
          handlers[k].name = "hello_handler" /\ handlers[k].state.handshake

\* The handshake flag of some handler is set.
Handshaken == \E k \in DOMAIN handlers : handlers[k].state.handshake

\* C19: the engine has no handshake gate: a decoded command that has the
\* registry is given to a handler exactly when its discriminant is
\* registered, whether or not any handshake flag is set and whichever
\* commands the connection sent before.
NoEngineGate ==
    [][\A c \in Conns :
          (conn[c].pc = "dispatch" /\ conn'[c].pc # "dispatch") =>
              /\ conn'[c].pc = "handling" <=>
                     discriminant(conn[c].cmd) \in DOMAIN handlers
              /\ conn'[c].pc = "handling" => conn'[c].cmd = conn[c].cmd]_vars

\* A CreateUser, the first command of its connection, is with its handler
\* while no handshake flag is set.
NoGateWitness ==
    \E c \in Conns :
        /\ conn[c].pc = "handling"
        /\ conn[c].cmd.type = "CreateUser"
        /\ conn[c].nread = 1
        /\ \A d \in Conns : conn[d].nread = 0 \/ d = c
        /\ ~Handshaken

\* C21: a connection that has called handle keeps the registry lock until
\* its response write has completed or failed, or, when the result is a
\* Goodbye, until it leaves the loop; meanwhile no other connection starts a
\* handler.
LockHeldThroughWrite ==
    [][\A c \in Conns :
          /\ conn[c].pc \in {"handling", "inserting", "writing"} =>
                /\ lock = c
                /\ \A d \in Conns \ {c} :
                      ~InHandle(d) /\ (conn'[c].pc = conn[c].pc => ~InHandle(d)')
          /\ (conn[c].pc \in {"handling", "inserting", "writing"} /\ lock' # c) =>
                \/ /\ conn[c].pc = "writing"
                   /\ conn'[c].pc \in {"reading", "aborted"}
                \/ /\ InHandle(c)
                   /\ conn'[c].pc = "shutdown"
                   /\ conn'[c].result.type = "Goodbye"]_vars

\* One connection is writing its response under the lock while another has
\* a decoded command and waits for the lock.
HeldThroughWriteWitness ==
    \E c, d \in Conns :
        /\ c # d
        /\ conn[c].pc = "writing" /\ lock = c
        /\ conn[d].pc = "lock_wait"

\* A connection in the transport handshake, in a read, sending the farewell
\* of a failed decode or shutting its stream down.
Idle(c) == conn[c].pc \in {"accepted", "reading", "send_goodbye", "shutdown"}

\* C22: a connection in the transport handshake, in a read or shutting down
\* does not hold the registry lock, and while every other connection is
\* such a connection (or is waiting, or gone), a connection waiting for the
\* lock can acquire it.
IdleHoldsNoLock ==
    /\ \A c \in Conns : Idle(c) => lock # c
    /\ \A d \in Conns :
          (/\ conn[d].pc = "lock_wait"
           /\ \A c \in Conns \ {d} : conn[c].pc \notin Critical) =>
              ENABLED Lock(d)

\* One connection was served and is back in a read, one is shutting down
\* or in its handshake, and neither keeps the other from being handled.
IdleWitness ==
    \E c, d \in Conns :
        /\ c # d
        /\ conn[c].pc = "reading" /\ conn[c].nwritten = 1
        /\ conn[d].pc = "handling" /\ lock = d

\* Connection c has decoded a command that has a handler and asks for the
\* registry lock.
WaitsForLock(c) ==
    /\ conn[c].pc = "lock_wait"
    /\ discriminant(conn[c].cmd) \in DOMAIN handlers

\* C23: under fair scheduling a connection that has decoded a command with
\* a registered handler eventually acquires the registry lock, and
\* eventually has its response written or is closed.
LockEventuallyAcquired ==
    \A c \in Conns :
        /\ WaitsForLock(c) ~> (lock = c)
        /\ WaitsForLock(c) ~>
              \/ conn[c].pc = "reading" /\ conn[c].sent # NoCmd
              \/ conn[c].pc \in {"closed", "aborted"}

\* A connection waits for the lock while another one holds it.
WaitingWitness ==
    \E c, d \in Conns :
        c # d /\ WaitsForLock(c) /\ lock = d /\ conn[d].pc = "writing"
              /\ conn[c].nread = 1

\* Inside the 'connection loop, and out of it.
InLoop(pc) ==
    pc \in {"reading", "lock_wait", "dispatch", "handling", "inserting",
            "writing", "send_goodbye"}
Left(pc) == pc \in {"shutdown", "closed", "aborted", "panicked"}

\* C24: a connection leaves the loop only on a read that did not decode, on
\* a handler result of Goodbye, on an I/O error or on a missing handler; a
\* response that is written brings it back to Reading; and nothing but the
\* return of a read (bytes, end of stream or an error) takes it out of
\* Reading: the engine has no timeout.
LeavesLoopOnlyOnCause ==
    [][\A c \in Conns :
          /\ (InLoop(conn[c].pc) /\ Left(conn'[c].pc)) =>
                \/ /\ conn[c].pc = "send_goodbye" /\ conn[c].decodeFailed
                   /\ conn'[c].pc = "shutdown" /\ conn'[c].sent = Farewell
                \/ /\ InHandle(c) /\ conn'[c].pc = "shutdown"
                   /\ conn'[c].result.type = "Goodbye"
                \/ conn'[c].pc = "aborted" /\ conn'[c].ioerr
                \/ /\ conn[c].pc = "dispatch" /\ conn'[c].pc = "panicked"
                   /\ discriminant(conn[c].cmd) \notin DOMAIN handlers
          /\ (conn[c].pc = "writing" /\ conn'[c].pc # "writing"
                 /\ ~conn'[c].ioerr) =>
                /\ conn'[c].pc = "reading"
                /\ conn'[c].sent.type # "Goodbye"
          /\ (conn[c].pc = "reading" /\ conn'[c].pc # "reading") =>
                \/ conn'[c].nread = conn[c].nread + 1
                \/ conn'[c].pc = "aborted" /\ conn'[c].ioerr]_vars

\* One connection was answered and is back in Reading; the other sent bytes
\* that did not decode and is closed.
BackToReadingWitness ==
    \E c, d \in Conns :
        /\ conn[c].pc = "reading" /\ conn[c].nwritten = 1
        /\ conn[c].sent.type \in {"Hello", "Success", "Error"}
        /\ conn[d].pc = "closed" /\ conn[d].decodeFailed

\* The discriminants the table of the server registers.
RegisteredKeys == {discriminant(DefaultCmd(table[i].k)) : i \in DOMAIN table}

\* C25: the key set of the registry is the one built from the table at
\* start, in every state; no step inserts, removes or replaces an entry
\* (the handler under a key stays the same handler); an entry is looked up,
\* and its handler's state changed, only by the connection that holds the
\* registry lock.
RegistryFixed ==
    [][/\ DOMAIN handlers = RegisteredKeys
       /\ DOMAIN handlers' = DOMAIN handlers
       /\ \A k \in DOMAIN handlers : handlers'[k].name = handlers[k].name
       /\ \A c \in Conns :
             (conn[c].pc = "dispatch" /\ conn'[c].pc # "dispatch") => lock = c
       /\ \A k \in DOMAIN handlers :
             handlers'[k] # handlers[k] =>
                 \E c \in Conns : lock = c /\ InHandle(c) /\ conn[c].key = k]_vars

\* One connection changed a handler's state, another has looked its handler
\* up under the lock, and the registry has the keys it started with.
RegistryWitness ==
    /\ DOMAIN handlers = {0, 1, 5}
    /\ Handshaken
    /\ \A c \in Conns : conn[c].nhandled = 1
    /\ \E c \in Conns : conn[c].pc = "handling" /\ lock = c

\* C26: a generated handler called with a command outside its pattern
\* returns its declared mismatch error and leaves every handler state as it
\* was, the body not run; called with a command of its pattern it runs the
\* body exactly once, on its own state and no other.
GeneratedHandlerContract ==
    [][last'.n = last.n + 1 =>
          LET k == last'.arg.key
              command == last'.arg.cmd
          IN  IF command.type # handlers[k].pattern
              THEN /\ last'.ret = Err(MismatchError)
                   /\ handlers' = handlers
              ELSE /\ handlers'[k].state.runs = handlers[k].state.runs + 1
                   /\ last'.ret \in BodyResults
                   /\ \A j \in DOMAIN handlers \ {k} :
                         handlers'[j] = handlers[j]]_vars

\* A handler whose body ran once has just refused a command outside its
\* pattern.
MismatchWitness ==
    /\ last.op = "handle"
    /\ last.ret = Err(MismatchError)
    /\ last.arg.cmd.type # handlers[last.arg.key].pattern
    /\ handlers[last.arg.key].state.runs = 1

\* The fields of a User record other than the pool.
Identity(u) == <<u.username, u.identity_key, u.signed_prekey, u.prekey_signature>>

\* C27: a record made from a bundle has the bundle's username, identity
\* key, signed prekey and prekey signature and an empty pool; one_time_prekeys
\* returns the pool and changes nothing; insert_prekeys and pop_prekey change
\* no field but the pool.
UserFrame ==
    [][last' # last =>
          /\ last'.op = "from" =>
                /\ Identity(user') = <<last'.arg[1], last'.arg[2], last'.arg[3],
                                       <<last'.arg[4], last'.arg[5]>> >>
                /\ PoolAfter = <<>>
          /\ last'.op = "one_time_prekeys" =>
                /\ user' = user
                /\ last'.ret = Pool
          /\ last'.op \in {"insert_prekeys", "pop_prekey"} =>
                Identity(user') = Identity(user)]_vars

\* A record made from the second bundle, after an insert, a read and a pop
\* that changed the pool.
UserFrameWitness ==
    /\ Identity(user) = <<2, 2, 6, <<2, 6>> >>
    /\ last.op = "pop_prekey" /\ last.n = 3 /\ last.ret = Some(12)
    /\ Pool = <<11>>

====
